---------------------------- MODULE Spec2Model ----------------------------
(***************************************************************************)
(* A model of src/src/train.py: the orchestrator (main, train), the        *)
(* perceptual loss (build_loss_func) and the visualization tiling          *)
(* (save_images).                                                          *)
(*                                                                         *)
(* Three specifications share the module:                                  *)
(*   Spec      main() and train(): start-up check, graph construction,     *)
(*             session set-up, the epoch/batch loop and its periodic save  *)
(*   SpecLoss  build_loss_func as a pure function of its inputs            *)
(*   SpecTile  save_images as a pure function of its inputs                *)
(*                                                                         *)
(* Real numbers are fixed-point integers: a layer weight is held in        *)
(* hundredths (0.88 -> 88) and the blended loss in units of 1/9000 of the  *)
(* per-candidate loss unit, so that 0.999, 0.001 and the mean over 9       *)
(* candidates are exact.  Floating-point rounding is not modelled.         *)
(***************************************************************************)
EXTENDS Integers, Sequences, FiniteSets, TLC

\* ------------------------------------------------------------ bounds --
MaxEpochs == 3
MaxBatches == 4
MaxSaveEvery == 3
MaxGrad == 1
MaxPix == 2
MaxBump == 1
MaxB == 2
MaxH == 2
MaxW == 2

VARIABLES
    \* ---- main / train ----
    args,               \* parsed arguments and environment: ckpt, epochs, num_batches, save_every
    pc,                 \* position of the main thread
    exit_status,        \* process exit status, -1 while running
    message,            \* what sys.exit printed
    graph_built,        \* model and loss graph constructed (lines 177-181)
    var_list,           \* the variables the optimizer op updates
    output_dir_created, \* <output_dir>/<name> exists (the FileWriter makes it)
    workers_started,    \* ImageGenerator and its loaders started
    params,             \* value of each variable group in the session
    epoch,
    batch_num,
    batch,              \* the batch held by the running step
    pulled,             \* batches pulled from the Batch Source
    updates,            \* optimizer updates applied
    metrics,            \* summaries handed to the FileWriter
    steps_done,         \* loop bodies run to their end
    visited,            \* (epoch, batch_num) of every step started, in order
    grad_log,           \* per optimizer update: the id of the batch in its feed_dict
    summary_log,        \* per summary: the global step it was reported at
    image_dir_exists,   \* <output_dir>/<name>/images exists
    tiles,              \* visualization files written, by (epoch, batch_num)
    tile_log,           \* index in visited of every step that wrote a tile
    snapshots,          \* checkpoint files on disk: path -> parameters held
    ckpt_log,           \* index in visited of every step that wrote a snapshot
    prev_snapshot,      \* what the last snapshot write replaced
    \* ---- build_loss_func ----
    lpc,                \* "input" before build_loss_func has run, "built" after
    image_bw,           \* sgru_model.image_bw: the grayscale input, also the mask
    image_rgb_real,     \* the ground-truth image
    images_rgb_fake,    \* the candidate bundle: one entry per 3-channel slice
    losses,             \* per-candidate losses, in hundredths
    loss_min,           \* in hundredths
    loss_mean,          \* in 1/9 of a hundredth (the mean times collection_size)
    loss,               \* in 1/9000 of a hundredth
    \* ---- save_images ----
    tpc,                \* "input" before save_images has run, "written" after
    batch_rgb_fake,     \* [example][row][col] -> pixel of 27 channels
    batch_rgb_real,     \* [example][row][col] -> pixel of 3 channels
    batch_bw,           \* [example][row][col] -> pixel of 1 channel
    out_file            \* what cv2.imwrite stored at output_fname: [row][col] -> pixel

trainVars == <<args, pc, exit_status, message, graph_built, var_list,
               output_dir_created, workers_started, params, epoch, batch_num,
               batch, pulled, updates, metrics, steps_done, visited, grad_log,
               summary_log, image_dir_exists, tiles, tile_log, snapshots,
               ckpt_log, prev_snapshot>>

lossVars == <<lpc, image_bw, image_rgb_real, images_rgb_fake, losses, loss_min,
              loss_mean, loss>>

tileVars == <<tpc, batch_rgb_fake, batch_rgb_real, batch_bw, out_file>>

vars == <<trainVars, lossVars, tileVars>>

\* ------------------------------------------------------------ helpers --
NoBatch == [id |-> 0, grad |-> 0]
NoFile == [base |-> "none", delta |-> 0]

\* a start-up check that lets every data_dir through
isfile_unchecked(a) == TRUE

\* os.path.isfile(os.path.join(args.data_dir, 'vgg_19.ckpt'))
isfile(a) == a.ckpt

\* Variables that land in the TRAINABLE_VARIABLES collection while the graph is
\* built: SGRU's own, and those slim's vgg_19 creates (is_training=False only
\* switches dropout; the layers are created with trainable left at True).
trainable_variables == {"sgru", "vgg_19"}

\* AdamOptimizer(...).minimize(loss_func): no var_list given, so every
\* trainable variable is updated.
minimize_var_list == trainable_variables

\* tf.global_variables_initializer(): every variable gets its initial value.
global_variables_initializer == [v \in {"sgru", "vgg_19"} |-> [base |-> "init", delta |-> 0]]

\* vgg_init_fn(sess): the variables found in vgg_19.ckpt are assigned from it;
\* the others are left alone (ignore_missing_vars=True).
vgg_init_fn(p) == [p EXCEPT !["vgg_19"] = [base |-> "ckpt", delta |-> 0]]

\* One Adam update of variable group v from the gradient of batch b.
apply_gradients(p, vl, b) ==
    [v \in DOMAIN p |-> IF v \in vl THEN [p[v] EXCEPT !.delta = @ + b.grad] ELSE p[v]]

\* a checkpoint name that differs from save to save
ckpt_path_per_step(e, b) == <<"model.ckpt", e, b>>

\* os.path.join(output_dir, 'model.ckpt'), as path components under output_dir
ckpt_path(e, b) == <<"model.ckpt">>

\* image file name '{}_{}.jpg'.format(epoch, batch_num)
image_fname(e, b) == <<e, b>>

\* a save condition counted over the whole run instead of within the epoch
save_due_global(e, b, a) == (e * a.num_batches + b) % a.save_every = 0

\* batch_num % args.save_every == 0   (save_every is not 0 here)
save_due(e, b, a) == b % a.save_every = 0

\* sgru_model.save(path): the generator's parameters are written to path,
\* replacing what the file held.
sgru_save(files, path, p) ==
    [f \in (DOMAIN files) \cup {path} |-> IF f = path THEN p["sgru"] ELSE files[f]]

\* range(args.epochs) x range(num_batches), in the order the loops walk it
RECURSIVE LexPairs(_, _, _, _)
LexPairs(e, b, E, N) ==
    IF e >= E THEN <<>>
    ELSE IF b >= N THEN LexPairs(e + 1, 0, E, N)
    ELSE <<<<e, b>>>> \o LexPairs(e, b + 1, E, N)

\* --------------------------------------------------------------- Init --
ArgSpace ==
    [ckpt : BOOLEAN, epochs : 0..MaxEpochs, num_batches : 0..MaxBatches,
     save_every : 0..MaxSaveEvery]

TrainInit ==
    /\ args \in ArgSpace
    /\ pc = "main"
    /\ exit_status = -1
    /\ message = ""
    /\ graph_built = FALSE
    /\ var_list = {}
    /\ output_dir_created = FALSE
    /\ workers_started = FALSE
    /\ params = [v \in {"sgru", "vgg_19"} |-> [base |-> "none", delta |-> 0]]
    /\ epoch = 0
    /\ batch_num = 0
    /\ batch = NoBatch
    /\ pulled = 0
    /\ updates = 0
    /\ metrics = 0
    /\ steps_done = 0
    /\ visited = <<>>
    /\ grad_log = <<>>
    /\ summary_log = <<>>
    /\ image_dir_exists = FALSE
    /\ tiles = {}
    /\ tile_log = <<>>
    /\ snapshots = <<>>
    /\ ckpt_log = <<>>
    /\ prev_snapshot = NoFile

\* build_loss_func and save_images at rest, while another part is explored
LossIdle ==
    /\ lpc = "idle"
    /\ image_bw = 0
    /\ image_rgb_real = 0
    /\ images_rgb_fake = <<>>
    /\ losses = <<>>
    /\ loss_min = 0
    /\ loss_mean = 0
    /\ loss = 0

TileIdle ==
    /\ tpc = "idle"
    /\ batch_rgb_fake = <<>>
    /\ batch_rgb_real = <<>>
    /\ batch_bw = <<>>
    /\ out_file = <<>>

Init == TrainInit /\ LossIdle /\ TileIdle

\* ------------------------------------------------------------ actions --
\* main, lines 172-175: the checkpoint is missing, sys.exit(<text>)
MainExit ==
    /\ pc = "main"
    /\ ~isfile(args)
    /\ pc' = "exited"
    /\ exit_status' = 1
    /\ message' = "Download VGG19 checkpoint ... and save it to the root of your data_dir"
    /\ UNCHANGED <<lossVars, tileVars, args, graph_built, var_list, output_dir_created, workers_started,
                   params, epoch, batch_num, batch, pulled, updates, metrics,
                   steps_done, visited, grad_log, summary_log, image_dir_exists,
                   tiles, tile_log, snapshots, ckpt_log, prev_snapshot>>

\* main, lines 177-181: placeholder, SGRU, loss graph, optimizer op
MainBuild ==
    /\ pc = "main"
    /\ isfile(args)
    /\ graph_built' = TRUE
    /\ var_list' = minimize_var_list
    /\ pc' = "train"
    /\ UNCHANGED <<lossVars, tileVars, args, exit_status, message, output_dir_created, workers_started,
                   params, epoch, batch_num, batch, pulled, updates, metrics,
                   steps_done, visited, grad_log, summary_log, image_dir_exists,
                   tiles, tile_log, snapshots, ckpt_log, prev_snapshot>>

\* train, lines 111-132: session, FileWriter, init_op, then the VGG restore
TrainSession ==
    /\ pc = "train"
    /\ output_dir_created' = TRUE
    /\ params' = vgg_init_fn(global_variables_initializer)
    /\ pc' = "generator"
    /\ UNCHANGED <<lossVars, tileVars, args, exit_status, message, graph_built, var_list, workers_started,
                   epoch, batch_num, batch, pulled, updates, metrics,
                   steps_done, visited, grad_log, summary_log, image_dir_exists,
                   tiles, tile_log, snapshots, ckpt_log, prev_snapshot>>

\* train, lines 134-139: ImageGenerator(...).load_batches()
TrainGenerator ==
    /\ pc = "generator"
    /\ workers_started' = TRUE
    /\ epoch' = 0
    /\ batch_num' = 0
    /\ pc' = "pull"
    /\ UNCHANGED <<lossVars, tileVars, args, exit_status, message, graph_built, var_list, output_dir_created,
                   params, batch, pulled, updates, metrics,
                   steps_done, visited, grad_log, summary_log, image_dir_exists,
                   tiles, tile_log, snapshots, ckpt_log, prev_snapshot>>

\* train, line 145: sess.run([batch_bw_op, batch_rgb_op]); the batch's content
\* decides the size of the gradient it yields (0: no gradient at all)
PullBatch ==
    /\ pc = "pull"
    /\ epoch < args.epochs
    /\ batch_num < args.num_batches
    /\ \E g \in 0..MaxGrad : batch' = [id |-> pulled + 1, grad |-> g]
    /\ pulled' = pulled + 1
    /\ visited' = Append(visited, <<epoch, batch_num>>)
    /\ pc' = "run"
    /\ UNCHANGED <<lossVars, tileVars, args, exit_status, message, graph_built, var_list, output_dir_created,
                   workers_started, params, epoch, batch_num, updates, metrics,
                   steps_done, grad_log, summary_log, image_dir_exists,
                   tiles, tile_log, snapshots, ckpt_log, prev_snapshot>>

\* train, lines 147-152: forward pass, loss, one optimizer update
RunStep ==
    /\ pc = "run"
    /\ params' = apply_gradients(params, var_list, batch)
    /\ updates' = updates + 1
    /\ grad_log' = Append(grad_log, batch.id)
    /\ pc' = "report"
    /\ UNCHANGED <<lossVars, tileVars, args, exit_status, message, graph_built, var_list, output_dir_created,
                   workers_started, epoch, batch_num, batch, pulled, metrics,
                   steps_done, visited, summary_log, image_dir_exists,
                   tiles, tile_log, snapshots, ckpt_log, prev_snapshot>>

\* a report that reaches the FileWriter on save steps only
ReportOnSaveOnly ==
    /\ pc = "report"
    /\ metrics' = IF args.save_every # 0 /\ batch_num % args.save_every = 0
                  THEN metrics + 1 ELSE metrics
    /\ summary_log' = summary_log
    /\ pc' = "save_check"
    /\ UNCHANGED <<lossVars, tileVars, args, exit_status, message, graph_built, var_list, output_dir_created,
                   workers_started, params, epoch, batch_num, batch, pulled, updates,
                   steps_done, visited, grad_log, image_dir_exists,
                   tiles, tile_log, snapshots, ckpt_log, prev_snapshot>>

\* train, lines 155-159: add_summary at epoch*num_batches + batch_num, print, append
Report ==
    /\ pc = "report"
    /\ metrics' = metrics + 1
    /\ summary_log' = Append(summary_log, epoch * args.num_batches + batch_num)
    /\ pc' = "save_check"
    /\ UNCHANGED <<lossVars, tileVars, args, exit_status, message, graph_built, var_list, output_dir_created,
                   workers_started, params, epoch, batch_num, batch, pulled, updates,
                   steps_done, visited, grad_log, image_dir_exists,
                   tiles, tile_log, snapshots, ckpt_log, prev_snapshot>>

\* train, line 161 with save_every = 0: the modulo raises ZeroDivisionError,
\* nothing catches it and the process ends with a traceback
SaveCheckRaises ==
    /\ pc = "save_check"
    /\ args.save_every = 0
    /\ pc' = "crashed"
    /\ exit_status' = 1
    /\ message' = "ZeroDivisionError: integer division or modulo by zero"
    /\ UNCHANGED <<lossVars, tileVars, args, graph_built, var_list, output_dir_created, workers_started,
                   params, epoch, batch_num, batch, pulled, updates, metrics,
                   steps_done, visited, grad_log, summary_log, image_dir_exists,
                   tiles, tile_log, snapshots, ckpt_log, prev_snapshot>>

\* train, line 161, condition false: the loop body ends, the inner loop advances
SkipSave ==
    /\ pc = "save_check"
    /\ args.save_every # 0
    /\ ~save_due(epoch, batch_num, args)
    /\ batch_num' = batch_num + 1
    /\ steps_done' = steps_done + 1
    /\ batch' = NoBatch
    /\ pc' = "pull"
    /\ UNCHANGED <<lossVars, tileVars, args, exit_status, message, graph_built, var_list, output_dir_created,
                   workers_started, params, epoch, pulled, updates, metrics,
                   visited, grad_log, summary_log, image_dir_exists,
                   tiles, tile_log, snapshots, ckpt_log, prev_snapshot>>

\* train, lines 161-166: images directory made if absent, tile written
SaveImages ==
    /\ pc = "save_check"
    /\ args.save_every # 0
    /\ save_due(epoch, batch_num, args)
    /\ image_dir_exists' = TRUE
    /\ tiles' = tiles \cup {image_fname(epoch, batch_num)}
    /\ tile_log' = Append(tile_log, Len(visited))
    /\ pc' = "save_model"
    /\ UNCHANGED <<lossVars, tileVars, args, exit_status, message, graph_built, var_list, output_dir_created,
                   workers_started, params, epoch, batch_num, batch, pulled, updates,
                   metrics, steps_done, visited, grad_log, summary_log,
                   snapshots, ckpt_log, prev_snapshot>>

\* train, line 167: sgru_model.save(...); the loop body ends
SaveModel ==
    /\ pc = "save_model"
    /\ LET path == ckpt_path(epoch, batch_num) IN
        /\ prev_snapshot' = IF path \in DOMAIN snapshots THEN snapshots[path] ELSE NoFile
        /\ snapshots' = sgru_save(snapshots, path, params)
    /\ ckpt_log' = Append(ckpt_log, Len(visited))
    /\ batch_num' = batch_num + 1
    /\ steps_done' = steps_done + 1
    /\ batch' = NoBatch
    /\ pc' = "pull"
    /\ UNCHANGED <<lossVars, tileVars, args, exit_status, message, graph_built, var_list, output_dir_created,
                   workers_started, params, epoch, pulled, updates, metrics,
                   visited, grad_log, summary_log, image_dir_exists, tiles, tile_log>>

\* train, line 143 exhausted: the outer loop advances
NextEpoch ==
    /\ pc = "pull"
    /\ epoch < args.epochs
    /\ batch_num >= args.num_batches
    /\ epoch' = epoch + 1
    /\ batch_num' = 0
    /\ UNCHANGED <<lossVars, tileVars, args, pc, exit_status, message, graph_built, var_list,
                   output_dir_created, workers_started, params, batch, pulled, updates,
                   metrics, steps_done, visited, grad_log, summary_log,
                   image_dir_exists, tiles, tile_log, snapshots, ckpt_log, prev_snapshot>>

\* train, line 141 exhausted: train and main return, the process ends with 0
TrainDone ==
    /\ pc = "pull"
    /\ epoch >= args.epochs
    /\ pc' = "done"
    /\ exit_status' = 0
    /\ UNCHANGED <<lossVars, tileVars, args, message, graph_built, var_list, output_dir_created,
                   workers_started, params, epoch, batch_num, batch, pulled, updates,
                   metrics, steps_done, visited, grad_log, summary_log,
                   image_dir_exists, tiles, tile_log, snapshots, ckpt_log, prev_snapshot>>

Next ==
    \/ MainExit
    \/ MainBuild
    \/ TrainSession
    \/ TrainGenerator
    \/ PullBatch
    \/ RunStep
    \/ Report
    \/ SaveCheckRaises
    \/ SkipSave
    \/ SaveImages
    \/ SaveModel
    \/ NextEpoch
    \/ TrainDone

\* ===================================================== build_loss_func ==
\* An image is a tensor of one element holding an intensity level 0..MaxPix; the
\* bundle holds collection_size of them, entry i standing for the channel slice
\* [i*3, (i+1)*3).

collection_size == 9

\* lambda_weights, in hundredths
lambda_weights == <<88, 79, 63, 51, 39, 107>>

layers == <<"input", "conv1_2", "conv2_2", "conv3_2", "conv4_2", "conv5_2">>

relu(x) == IF x > 0 THEN x ELSE 0

\* vgg_19_evaluate(image)[layer]: an end point of the network.  The pretrained
\* network is outside the repository; it is held here as a fixed deterministic
\* map per layer (scale, then bias, then ReLU), so equal images give equal
\* activations and different images may or may not.
vgg_19_evaluate(image, layer) ==
    CASE layer = "conv1_2" -> relu(image)
      [] layer = "conv2_2" -> relu(2 * image)
      [] layer = "conv3_2" -> relu(image - 1)
      [] layer = "conv4_2" -> relu(1 - image)
      [] layer = "conv5_2" -> relu(0 * image)

\* images_rgb_fake[:, :, :, i*3:(i+1)*3]
slice_candidate(bundle, i) == bundle[i]

\* lines 57-62: the activation of an image at a layer
activation(layer, image) ==
    IF layer = "input" THEN image ELSE vgg_19_evaluate(image, layer)

\* tf.image.resize_images(image_bw, tf.shape(act_fake)[1:3]): every activation
\* here has one spatial position, which takes the level of the one-pixel mask
resize_images(bw, layer) == bw

\* the difference taken with its sign
signed(x) == x

\* tf.abs
abs(x) == IF x < 0 THEN -x ELSE x

\* line 67 and 70: weight * mask * |act_fake - act_real|, summed over its elements
loss_inner(weight, mask, act_fake, act_real) == weight * mask * abs(act_fake - act_real)

RECURSIVE SumTo(_, _)
SumTo(q, n) == IF n = 0 THEN 0 ELSE q[n] + SumTo(q, n - 1)

RECURSIVE MinTo(_, _)
MinTo(q, n) ==
    IF n = 1 THEN q[1]
    ELSE LET m == MinTo(q, n - 1) IN IF q[n] < m THEN q[n] ELSE m

RECURSIVE MaxTo(_, _)
MaxTo(q, n) ==
    IF n = 1 THEN q[1]
    ELSE LET m == MaxTo(q, n - 1) IN IF q[n] > m THEN q[n] ELSE m

\* tf.reduce_sum
reduce_sum(q) == SumTo(q, Len(q))

\* the largest element
reduce_max(q) == MaxTo(q, Len(q))

\* tf.reduce_min
reduce_min(q) == MinTo(q, Len(q))

\* tf.reduce_mean, times the number of elements (kept exact)
reduce_mean(q) == SumTo(q, Len(q))

\* lines 50-76 for candidate i: the per-layer losses, summed
loss_collection(weights, bw, fake, real) ==
    LET losses_collection ==
            [k \in 1..Len(layers) |->
                loss_inner(weights[k], resize_images(bw, layers[k]),
                           activation(layers[k], fake),
                           activation(layers[k], real))]
    IN  reduce_sum(losses_collection)

\* lines 45-76: the list of per-candidate losses
candidate_losses(weights, bw, bundle, real) ==
    [i \in 1..collection_size |->
        loss_collection(weights, bw, slice_candidate(bundle, i - 1), real)]

\* the blend without its mean term, in 1/9000
blend_min_only(lmin, lmean) == 999 * collection_size * lmin

\* line 80: loss_min * 0.999 + loss_mean * 0.001, in 1/9000 (lmean is in 1/9)
blend(lmin, lmean) == 999 * collection_size * lmin + lmean

\* build_loss_func as a function of the weights and its inputs
total_loss(weights, bw, bundle, real) ==
    LET ls == candidate_losses(weights, bw, bundle, real)
    IN  blend(reduce_min(ls), reduce_mean(ls))

\* The candidate bundles the loss is explored on: every multiset of
\* collection_size intensity levels, laid out in non-decreasing order.
Bundles ==
    {b \in [0..(collection_size - 1) -> 0..MaxPix] :
        \A i \in 0..(collection_size - 2) : b[i] <= b[i + 1]}

LossInit ==
    /\ lpc = "input"
    /\ image_bw \in 0..MaxPix
    /\ image_rgb_real \in 0..MaxPix
    /\ images_rgb_fake \in Bundles
    /\ losses = <<>>
    /\ loss_min = 0
    /\ loss_mean = 0
    /\ loss = 0

\* build_loss_func, lines 27-84
BuildLoss ==
    /\ lpc = "input"
    /\ LET ls == candidate_losses(lambda_weights, image_bw, images_rgb_fake, image_rgb_real)
       IN  /\ losses' = ls
           /\ loss_min' = reduce_min(ls)
           /\ loss_mean' = reduce_mean(ls)
           /\ loss' = blend(reduce_min(ls), reduce_mean(ls))
    /\ lpc' = "built"
    /\ UNCHANGED <<trainVars, tileVars, image_bw, image_rgb_real, images_rgb_fake>>

TrainIdle ==
    /\ args = [ckpt |-> TRUE, epochs |-> 0, num_batches |-> 0, save_every |-> 1]
    /\ pc = "idle"
    /\ exit_status = -1
    /\ message = ""
    /\ graph_built = FALSE
    /\ var_list = {}
    /\ output_dir_created = FALSE
    /\ workers_started = FALSE
    /\ params = [v \in {"sgru", "vgg_19"} |-> [base |-> "none", delta |-> 0]]
    /\ epoch = 0
    /\ batch_num = 0
    /\ batch = NoBatch
    /\ pulled = 0
    /\ updates = 0
    /\ metrics = 0
    /\ steps_done = 0
    /\ visited = <<>>
    /\ grad_log = <<>>
    /\ summary_log = <<>>
    /\ image_dir_exists = FALSE
    /\ tiles = {}
    /\ tile_log = <<>>
    /\ snapshots = <<>>
    /\ ckpt_log = <<>>
    /\ prev_snapshot = NoFile

InitLoss == TrainIdle /\ LossInit /\ TileIdle

NextLoss == BuildLoss

SpecLoss == InitLoss /\ [][NextLoss]_vars

\* ========================================================= save_images ==
\* A pixel is a record: where it came from (src, example n, row r, column c), the
\* channels it holds (chan) and one value shared by its channels (val: a float in
\* whole units before the conversion, a byte after it).

tile_candidates == 9

minimum(a, b) == IF a < b THEN a ELSE b
maximum(a, b) == IF a > b THEN a ELSE b

\* line 91: np.minimum(np.maximum(x, 0.0), 1.0)
clip(v) == minimum(maximum(v, 0), 1)

\* lines 93-95: (x * 255).astype(np.uint8)
to_uint8(v) == (v * 255) % 256

\* line 91 on a whole batch
clip_batch(b) ==
    [n \in 1..Len(b) |-> [r \in 1..Len(b[n]) |-> [c \in 1..Len(b[n][r]) |->
        [b[n][r][c] EXCEPT !.val = clip(@)]]]]

\* lines 93-95 on a whole batch
uint8_batch(b) ==
    [n \in 1..Len(b) |-> [r \in 1..Len(b[n]) |-> [c \in 1..Len(b[n][r]) |->
        [b[n][r][c] EXCEPT !.val = to_uint8(@)]]]]

\* cv2.cvtColor(image_bw, cv2.COLOR_GRAY2BGR): the gray channel, three times
cvtColor(img) ==
    [r \in 1..Len(img) |-> [c \in 1..Len(img[r]) |->
        [img[r][c] EXCEPT !.chan = <<@[1], @[1], @[1]>>]]]

\* collection_fake[:, :, lo:hi]
channel_slice(img, lo, hi) ==
    [r \in 1..Len(img) |-> [c \in 1..Len(img[r]) |->
        [img[r][c] EXCEPT !.chan = SubSeq(@, lo + 1, hi)]]]

RECURSIVE ConcatTo(_, _)
ConcatTo(qs, n) == IF n = 0 THEN <<>> ELSE ConcatTo(qs, n - 1) \o qs[n]

\* np.hstack: the images side by side, row by row
hstack(imgs) ==
    [r \in 1..Len(imgs[1]) |-> ConcatTo([k \in 1..Len(imgs) |-> imgs[k][r]], Len(imgs))]

\* np.vstack: the images one under the other
vstack(imgs) == ConcatTo(imgs, Len(imgs))

\* the candidates of one example, one short
candidates_short(collection_fake) ==
    [i \in 1..(tile_candidates - 1) |-> channel_slice(collection_fake, (i - 1) * 3, i * 3)]

\* line 100: [collection_fake[:, :, i*3:(i+1)*3] for i in range(9)]
candidates(collection_fake) ==
    [i \in 1..tile_candidates |-> channel_slice(collection_fake, (i - 1) * 3, i * 3)]

\* lines 99-101: one example's row of tiles
row_image(image_bw_n, image_rgb_real_n, collection_fake) ==
    hstack(<<cvtColor(image_bw_n), image_rgb_real_n>> \o candidates(collection_fake))

\* save_images, lines 91-103: the image handed to cv2.imwrite
tile_image(fake, real, bw) ==
    LET batch_fake == uint8_batch(clip_batch(fake))
        batch_real == uint8_batch(real)
        batch_gray == uint8_batch(bw)
        zipped == minimum(Len(batch_gray), minimum(Len(batch_real), Len(batch_fake)))
    IN  vstack([n \in 1..zipped |-> row_image(batch_gray[n], batch_real[n], batch_fake[n])])

Seq0(n) == [i \in 1..n |-> i - 1]

MakeBatch(src, B, H, W, nchan, v) ==
    [n \in 1..B |-> [r \in 1..H |-> [c \in 1..W |->
        [src |-> src, n |-> n, r |-> r, c |-> c, chan |-> Seq0(nchan), val |-> v]]]]

TileInit ==
    /\ tpc = "input"
    /\ \E B \in 1..MaxB, H \in 1..MaxH, W \in 1..MaxW :
          /\ \E v \in {-1, 0, 1, 2} :
                batch_rgb_fake = MakeBatch("fake", B, H, W, 3 * tile_candidates, v)
          /\ \E v \in {0, 1} : batch_rgb_real = MakeBatch("real", B, H, W, 3, v)
          /\ \E v \in {0, 1} : batch_bw = MakeBatch("bw", B, H, W, 1, v)
    /\ out_file = <<>>

\* save_images, lines 87-105
SaveImagesCall ==
    /\ tpc = "input"
    /\ out_file' = tile_image(batch_rgb_fake, batch_rgb_real, batch_bw)
    /\ tpc' = "written"
    /\ UNCHANGED <<trainVars, lossVars, batch_rgb_fake, batch_rgb_real, batch_bw>>

InitTile == TrainIdle /\ LossIdle /\ TileInit

NextTile == SaveImagesCall

SpecTile == InitTile /\ [][NextTile]_vars

\* --------------------------------------------------------- properties --
Range(q) == {q[i] : i \in 1..Len(q)}
InLoop == pc \in {"pull", "run", "report", "save_check", "save_model", "done", "crashed"}
ModelCkpt == <<"model.ckpt">>

\* C1: when vgg_19.ckpt is absent at start-up the run can only end failed, with a
\* non-zero exit status and a message, and in no state of it has the output
\* directory been created, a loader been started, the graph been built or a
\* training step been run.
C1_MissingCheckpointFailsFast ==
    ~args.ckpt =>
        /\ pc \in {"main", "exited"}
        /\ pc = "main" => ENABLED MainExit /\ ~ENABLED MainBuild
        /\ pc = "exited" => exit_status # 0 /\ message # ""
        /\ ~output_dir_created
        /\ ~workers_started
        /\ ~graph_built
        /\ visited = <<>> /\ pulled = 0 /\ updates = 0

C1_Witness == ~args.ckpt /\ pc = "exited" /\ exit_status = 1

\* C2: for every epochs >= 0 and num_batches >= 0 the loop ends only after exactly
\* epochs x num_batches steps, having visited every (epoch, batch_num) once in
\* lexicographic order: once the run has ended, every step has been run to its end.
C2_EndsAfterEveryStep ==
    pc \in {"done", "crashed"} =>
        /\ steps_done = args.epochs * args.num_batches
        /\ visited = LexPairs(0, 0, args.epochs, args.num_batches)

\* C2 with the interval's one failing value set aside: when save_every is not 0
\* the run ends only in "done", after exactly epochs x num_batches steps walked
\* in lexicographic order, and every run prefix is a prefix of that walk.
C2_EndsAfterEveryStepWhenIntervalNonZero ==
    (args.save_every # 0 /\ InLoop) =>
        /\ pc # "crashed"
        /\ Len(visited) <= args.epochs * args.num_batches
        /\ visited = SubSeq(LexPairs(0, 0, args.epochs, args.num_batches), 1, Len(visited))
        /\ pc = "done" => steps_done = args.epochs * args.num_batches

\* C2, termination: with the main thread scheduled and every batch delivered,
\* the run reaches a terminal position.
C2_Terminates == <>(pc \in {"done", "crashed", "exited"})

C4_FeatureExtractorFrozen ==
    InLoop => params["vgg_19"] = [base |-> "ckpt", delta |-> 0]

\* C5: at most one snapshot exists, at <output_dir>/<name>/model.ckpt, and after a
\* save step it holds the generator's parameters as of that step, the previous
\* content having been overwritten.
C5_SingleLatestSnapshot ==
    /\ DOMAIN snapshots \subseteq {ModelCkpt}
    /\ ckpt_log # <<>> => DOMAIN snapshots = {ModelCkpt}
    /\ ckpt_log = <<>> => DOMAIN snapshots = {}
    /\ (pc \in {"pull", "done"} /\ ckpt_log # <<>> /\ ckpt_log[Len(ckpt_log)] = Len(visited))
          => snapshots[ModelCkpt] = params["sgru"]

C5_Witness ==
    /\ pc = "pull"
    /\ Len(ckpt_log) >= 2
    /\ ckpt_log[Len(ckpt_log)] = Len(visited)
    /\ prev_snapshot.base = "init"
    /\ prev_snapshot # snapshots[ModelCkpt]
    /\ snapshots[ModelCkpt] = params["sgru"]

\* C10: every step pulls one batch, applies one optimizer update fed from that
\* batch and emits metrics once, so at every step boundary the three counts equal
\* the number of steps; a step's save is complete before the next batch is pulled.
C10_OnePullUpdateReportPerStep ==
    /\ pc \in {"pull", "done"} =>
          /\ pulled = steps_done /\ updates = steps_done /\ metrics = steps_done
          /\ Len(visited) = steps_done
    /\ pc \in {"run", "report", "save_check", "save_model", "crashed"} =>
          /\ pulled = steps_done + 1
          /\ updates = IF pc = "run" THEN steps_done ELSE steps_done + 1
          /\ metrics = IF pc \in {"run", "report"} THEN steps_done ELSE steps_done + 1
    /\ Len(grad_log) = updates /\ Len(summary_log) = metrics
    /\ \A i \in 1..Len(grad_log) : grad_log[i] = i
    /\ pc = "run" => batch.id = pulled
    /\ \A i \in 1..Len(summary_log) :
          summary_log[i] = visited[i][1] * args.num_batches + visited[i][2]
    /\ pc \in {"pull", "run", "report", "save_check", "done"} =>
          /\ tile_log = ckpt_log
          /\ \A i \in 1..steps_done :
                (args.save_every # 0 /\ visited[i][2] % args.save_every = 0)
                    => i \in Range(ckpt_log)

C10_Witness ==
    /\ pc = "run"
    /\ steps_done >= 2
    /\ ckpt_log # <<>> /\ ckpt_log[Len(ckpt_log)] = steps_done
    /\ pulled = steps_done + 1 /\ updates = steps_done /\ metrics = steps_done

\* C6: the blended loss lies between the minimum and the mean of the per-candidate
\* losses: loss_min <= loss <= loss_mean.
C6_BlendBetweenMinAndMean ==
    lpc = "built" =>
        /\ 1000 * collection_size * loss_min <= loss
        /\ loss <= 1000 * loss_mean

C6_Witness ==
    /\ lpc = "built"
    /\ loss_min > 0
    /\ 1000 * collection_size * loss_min < loss
    /\ loss < 1000 * loss_mean

\* every candidate has, at every weighted layer, the ground truth's activation
\* wherever the mask is not zero
MatchesUnderMask ==
    \A i \in 0..(collection_size - 1) : \A k \in 1..Len(layers) :
        resize_images(image_bw, layers[k]) # 0 =>
            activation(layers[k], images_rgb_fake[i]) = activation(layers[k], image_rgb_real)

\* C7: the loss is >= 0, and it is 0 exactly when every candidate matches the
\* ground truth at every one of the 6 weighted layers under the mask.
C7_LossNonNegativeZeroIffMatch ==
    lpc = "built" =>
        /\ loss >= 0
        /\ (loss = 0) <=> MatchesUnderMask

C7_Witness ==
    /\ lpc = "built"
    /\ image_bw > 0
    /\ image_rgb_real > 0
    /\ loss = 0
    /\ \A i \in 0..(collection_size - 1) : images_rgb_fake[i] = image_rgb_real

\* weight k raised by d hundredths
Bump(weights, k, d) == [weights EXCEPT ![k] = @ + d]

\* C9: with activations and mask held fixed, raising any one of the 6 layer
\* weights never lowers the loss.
C9_LossMonotoneInEachWeight ==
    lpc = "built" =>
        /\ total_loss(lambda_weights, image_bw, images_rgb_fake, image_rgb_real) = loss
        /\ \A k \in 1..Len(layers) : \A d \in 1..MaxBump :
              total_loss(Bump(lambda_weights, k, d), image_bw, images_rgb_fake, image_rgb_real)
                  >= loss

C9_Witness ==
    /\ lpc = "built"
    /\ \E k \in 1..Len(layers) :
          total_loss(Bump(lambda_weights, k, 1), image_bw, images_rgb_fake, image_rgb_real) > loss
    /\ \E k \in 1..Len(layers) :
          total_loss(Bump(lambda_weights, k, 1), image_bw, images_rgb_fake, image_rgb_real) = loss
    /\ loss > 0

\* C8: for B examples of H x W with 9 candidates each, the image written has
\* height B*H and width (2+9)*W, and the row of tiles of example n is
\* [grayscale as 3 channels | ground truth | candidate_0 .. candidate_8], the
\* examples in batch order.
C8_TileLayout ==
    tpc = "written" =>
        LET B == Len(batch_bw)
            H == Len(batch_bw[1])
            W == Len(batch_bw[1][1])
        IN  /\ Len(out_file) = B * H
            /\ \A y \in 1..Len(out_file) : Len(out_file[y]) = (2 + 9) * W
            /\ \A y \in 1..(B * H) : \A x \in 1..(11 * W) :
                  LET n == ((y - 1) \div H) + 1
                      r == ((y - 1) % H) + 1
                      t == (x - 1) \div W
                      c == ((x - 1) % W) + 1
                      px == out_file[y][x]
                  IN  /\ px.n = n /\ px.r = r /\ px.c = c
                      /\ Len(px.chan) = 3
                      /\ t = 0 => px.src = "bw" /\ px.chan = <<0, 0, 0>>
                                   /\ px.val = to_uint8(batch_bw[n][r][c].val)
                      /\ t = 1 => px.src = "real" /\ px.chan = <<0, 1, 2>>
                                   /\ px.val = to_uint8(batch_rgb_real[n][r][c].val)
                      /\ t >= 2 => px.src = "fake"
                                   /\ px.chan = <<3 * (t - 2), 3 * (t - 2) + 1, 3 * (t - 2) + 2>>
                                   /\ px.val \in {0, 255}

C8_Witness ==
    /\ tpc = "written"
    /\ Len(batch_bw) >= 2 /\ Len(batch_bw[1]) >= 2 /\ Len(batch_bw[1][1]) >= 2
    /\ Len(out_file) = Len(batch_bw) * Len(batch_bw[1])
    /\ Len(out_file[1]) = 11 * Len(batch_bw[1][1])
    /\ out_file[Len(out_file)][Len(out_file[1])].chan = <<24, 25, 26>>

Spec == Init /\ [][Next]_vars

\* the main thread keeps running and the Batch Source delivers every batch asked for
FairSpec == Spec /\ WF_vars(Next)

=============================================================================
